---- MODULE Spec2Model ----
(***************************************************************************)
(* Model of the realtime relay session (RTSession, session.ts) and of the  *)
(* sculpture data service (JsonDataService, json-data-service.ts).         *)
(*                                                                         *)
(* Text is a sequence of one-character strings, so that toLowerCase and    *)
(* includes are computed the way the code computes them.                   *)
(***************************************************************************)
EXTENDS Integers, Sequences, FiniteSets, TLC

(***************************************************************************)
(* Bounds of the model.                                                    *)
(***************************************************************************)
\* inbound client frames received on one connection
MaxMsgs == 2
\* user_message frames received on one connection, when no other frame is
MaxUserMsgs == 1
\* values yielded by the remote streams over one session: events, items,
\* content items and chunks
MaxYields == 6

\* operations called on a JsonDataService taken alone
MaxOps == 2

(***************************************************************************)
(* Strings.                                                                *)
(***************************************************************************)
UpperCase ==
    <<"A", "B", "C", "D", "E", "F", "G", "H", "I", "J", "K", "L", "M",
      "N", "O", "P", "Q", "R", "S", "T", "U", "V", "W", "X", "Y", "Z">>

LowerCase ==
    <<"a", "b", "c", "d", "e", "f", "g", "h", "i", "j", "k", "l", "m",
      "n", "o", "p", "q", "r", "s", "t", "u", "v", "w", "x", "y", "z">>

\* one character of String.prototype.toLowerCase
toLowerChar(c) ==
    IF \E i \in 1..Len(UpperCase) : UpperCase[i] = c
    THEN LowerCase[CHOOSE i \in 1..Len(UpperCase) : UpperCase[i] = c]
    ELSE c

\* String.prototype.toLowerCase
toLowerCase(s) == [i \in 1..Len(s) |-> toLowerChar(s[i])]

\* String.prototype.includes: t occurs in s as a contiguous substring
includes(s, t) ==
    \E i \in 0..(Len(s) - Len(t)) : SubSeq(s, i + 1, i + Len(t)) = t

\* JavaScript truthiness of an optional string field: absent and "" are falsy
Truthy(s) == s # <<>>

(***************************************************************************)
(* Term extraction (session.ts).                                           *)
(***************************************************************************)
commonSculptures ==
    << <<"D", "a", "v", "i", "d">>,
       <<"P", "i", "e", "t", "a">>,
       <<"V", "e", "n", "u", "s", " ", "d", "e", " ", "M", "i", "l", "o">>,
       <<"T", "h", "e", " ", "T", "h", "i", "n", "k", "e", "r">>,
       <<"E", "c", "s", "t", "a", "s", "y", " ", "o", "f", " ", "S", "a", "i", "n", "t", " ", "T", "e", "r", "e", "s", "a">>,
       <<"B", "u", "s", "t", " ", "o", "f", " ", "N", "e", "f", "e", "r", "t", "i", "t", "i">>,
       <<"T", "e", "r", "r", "a", "c", "o", "t", "t", "a", " ", "A", "r", "m", "y">>,
       <<"W", "i", "n", "g", "e", "d", " ", "V", "i", "c", "t", "o", "r", "y">>,
       <<"P", "e", "r", "s", "e", "u", "s", " ", "w", "i", "t", "h", " ", "t", "h", "e", " ", "H", "e", "a", "d", " ", "o", "f", " ", "M", "e", "d", "u", "s", "a">>,
       <<"S", "t", "a", "t", "u", "e", " ", "o", "f", " ", "L", "i", "b", "e", "r", "t", "y">>,
       <<"C", "h", "r", "i", "s", "t", " ", "t", "h", "e", " ", "R", "e", "d", "e", "e", "m", "e", "r">>,
       <<"B", "u", "r", "g", "h", "e", "r", "s", " ", "o", "f", " ", "C", "a", "l", "a", "i", "s">> >>

commonArtists ==
    << <<"M", "i", "c", "h", "e", "l", "a", "n", "g", "e", "l", "o">>,
       <<"B", "e", "r", "n", "i", "n", "i">>,
       <<"R", "o", "d", "i", "n">>,
       <<"D", "o", "n", "a", "t", "e", "l", "l", "o">>,
       <<"A", "l", "e", "x", "a", "n", "d", "r", "o", "s">>,
       <<"A", "n", "t", "i", "o", "c", "h">>,
       <<"G", "i", "a", "n", " ", "L", "o", "r", "e", "n", "z", "o", " ", "B", "e", "r", "n", "i", "n", "i">>,
       <<"A", "u", "g", "u", "s", "t", "e", " ", "R", "o", "d", "i", "n">> >>

commonMaterials ==
    << <<"m", "a", "r", "b", "l", "e">>,
       <<"b", "r", "o", "n", "z", "e">>,
       <<"s", "t", "o", "n", "e">>,
       <<"w", "o", "o", "d">>,
       <<"c", "l", "a", "y">>,
       <<"t", "e", "r", "r", "a", "c", "o", "t", "t", "a">>,
       <<"s", "t", "e", "e", "l">> >>

commonPeriods ==
    << <<"R", "e", "n", "a", "i", "s", "s", "a", "n", "c", "e">>,
       <<"B", "a", "r", "o", "q", "u", "e">>,
       <<"C", "l", "a", "s", "s", "i", "c", "a", "l">>,
       <<"H", "e", "l", "l", "e", "n", "i", "s", "t", "i", "c">>,
       <<"M", "o", "d", "e", "r", "n">> >>

extractTermsCaseSensitive(text, terms) ==
    SelectSeq(terms, LAMBDA term : includes(text, term))

extractTermsFromText(text, terms) ==
    LET lowerText == toLowerCase(text)
    IN  SelectSeq(terms, LAMBDA term : includes(lowerText, toLowerCase(term)))

extractSculptureTerms(text) == extractTermsFromText(text, commonSculptures)

extractArtistTerms(text) == extractTermsFromText(text, commonArtists)

extractMaterialTerms(text) == extractTermsFromText(text, commonMaterials)

extractPeriodTerms(text) == extractTermsFromText(text, commonPeriods)

(***************************************************************************)
(* The data file and JsonDataService.                                      *)
(*                                                                         *)
(* A file is "missing" (readFile rejects), "malformed" (JSON.parse         *)
(* throws), or holds a JSON value: null, an object without the five        *)
(* collections (shape "bad"), or a dataset (shape "ok").                   *)
(***************************************************************************)
NoData == [shape |-> "null"]

BadData == [shape |-> "bad"]

Dataset1 ==
    [shape |-> "ok",
     sculptures |-> << [id |-> <<"s", "1">>,
                      name |-> <<"D", "a", "v", "i", "d">>,
                      artist |-> <<"a", "1">>,
                      year |-> <<"1", "5", "0", "4">>,
                      material |-> <<"M", "a", "r", "b", "l", "e">>,
                      period |-> <<"p", "1">>,
                      location |-> <<"l", "1">>,
                      description |-> <<"n", "u", "d", "e", " ", "h", "e", "r", "o">>,
                      imageUrl |-> <<>>,
                      visualDescription |-> <<"t", "a", "l", "l">>],
                    [id |-> <<"s", "2">>,
                      name |-> <<"T", "h", "e", " ", "T", "h", "i", "n", "k", "e", "r">>,
                      artist |-> <<"A", "u", "g", "u", "s", "t", "e", " ", "R", "o", "d", "i", "n">>,
                      year |-> <<>>,
                      material |-> <<"m", "2">>,
                      period |-> <<>>,
                      location |-> <<>>,
                      description |-> <<>>,
                      imageUrl |-> <<"u", "2">>,
                      visualDescription |-> <<>>] >>,
     artists |-> << [id |-> <<"a", "1">>,
                      name |-> <<"M", "i", "c", "h", "e", "l", "a", "n", "g", "e", "l", "o">>,
                      birthYear |-> <<"1", "4", "7", "5">>,
                      deathYear |-> <<"1", "5", "6", "4">>,
                      nationality |-> <<"I", "t", "a", "l", "i", "a", "n">>,
                      bio |-> <<>>],
                    [id |-> <<"a", "2">>,
                      name |-> <<"A", "u", "g", "u", "s", "t", "e", " ", "R", "o", "d", "i", "n">>,
                      birthYear |-> <<>>,
                      deathYear |-> <<>>,
                      nationality |-> <<>>,
                      bio |-> <<"s", "c", "u", "l", "p", "t", "o", "r">>] >>,
     materials |-> << [id |-> <<"m", "1">>,
                      name |-> <<"M", "a", "r", "b", "l", "e">>,
                      properties |-> <<"h", "a", "r", "d">>,
                      uses |-> <<>>],
                    [id |-> <<"m", "2">>,
                      name |-> <<"B", "r", "o", "n", "z", "e">>,
                      properties |-> <<>>,
                      uses |-> <<"c", "a", "s", "t", "i", "n", "g">>] >>,
     periods |-> << [id |-> <<"p", "1">>,
                      name |-> <<"R", "e", "n", "a", "i", "s", "s", "a", "n", "c", "e">>,
                      startYear |-> <<"1", "4", "0", "0">>,
                      endYear |-> <<>>,
                      characteristics |-> <<"h", "u", "m", "a", "n", "i", "s", "m">>] >>,
     locations |-> << [id |-> <<"l", "1">>,
                      name |-> <<"A", "c", "c", "a", "d", "e", "m", "i", "a">>,
                      city |-> <<"F", "l", "o", "r", "e", "n", "c", "e">>,
                      country |-> <<"I", "t", "a", "l", "y">>] >>]

FileMissing == [state |-> "missing", json |-> NoData]

FileMalformed == [state |-> "malformed", json |-> NoData]

FileNull == [state |-> "json", json |-> NoData]

FileBadShape == [state |-> "json", json |-> BadData]

FileDataset1 == [state |-> "json", json |-> Dataset1]

Files == {FileMissing, FileMalformed, FileNull, FileBadShape, FileDataset1}

\* a load that unsets the data when it fails
loadDataClears(f, d) ==
    IF f.state = "json"
    THEN [ok |-> TRUE, data |-> f.json]
    ELSE [ok |-> FALSE, data |-> NoData]

\* JsonDataService.loadData: the value returned and the data field afterwards
loadData(f, d) ==
    IF f.state = "json"
    THEN [ok |-> TRUE, data |-> f.json]
    ELSE [ok |-> FALSE, data |-> d]

\* result of a lookup: a value, or an exception
Returned(v) == [threw |-> FALSE, value |-> v]

Threw == [threw |-> TRUE, value |-> <<>>]

RECURSIVE Flatten(_)
Flatten(ss) == IF ss = <<>> THEN <<>> ELSE Head(ss) \o Flatten(Tail(ss))

\* the lookups, from the data field as it is after the load guard
findSculptureByName(d, name) ==
    IF d.shape = "null" THEN Returned(<<>>)
    ELSE IF d.shape = "bad" THEN Threw
    ELSE LET namePattern == toLowerCase(name)
         IN  Returned(SelectSeq(d.sculptures,
                 LAMBDA sculpture : includes(toLowerCase(sculpture.name), namePattern)))

getSculpturesByArtist(d, artistName) ==
    IF d.shape = "null" THEN Returned(<<>>)
    ELSE IF d.shape = "bad" THEN Threw
    ELSE LET artistNamePattern == toLowerCase(artistName)
             matchingArtists ==
                 SelectSeq(d.artists,
                     LAMBDA artist : includes(toLowerCase(artist.name), artistNamePattern))
             artistSculptures(artist) ==
                 SelectSeq(d.sculptures,
                     LAMBDA sculpture : sculpture.artist = artist.id
                                        \/ sculpture.artist = artist.name)
             pairs(artist) ==
                 [i \in 1..Len(artistSculptures(artist)) |->
                     [sculpture |-> artistSculptures(artist)[i], artist |-> artist]]
         IN  Returned(Flatten([k \in 1..Len(matchingArtists) |-> pairs(matchingArtists[k])]))

getSculpturesByMaterial(d, materialName) ==
    IF d.shape = "null" THEN Returned(<<>>)
    ELSE IF d.shape = "bad" THEN Threw
    ELSE LET materialNamePattern == toLowerCase(materialName)
             matchingMaterials ==
                 SelectSeq(d.materials,
                     LAMBDA material : includes(toLowerCase(material.name), materialNamePattern))
             materialSculptures(material) ==
                 SelectSeq(d.sculptures,
                     LAMBDA sculpture : sculpture.material = material.id
                                        \/ sculpture.material = material.name)
             pairs(material) ==
                 [i \in 1..Len(materialSculptures(material)) |->
                     [sculpture |-> materialSculptures(material)[i], material |-> material]]
         IN  Returned(Flatten([k \in 1..Len(matchingMaterials) |-> pairs(matchingMaterials[k])]))

getSculpturesByPeriod(d, periodName) ==
    IF d.shape = "null" THEN Returned(<<>>)
    ELSE IF d.shape = "bad" THEN Threw
    ELSE LET periodNamePattern == toLowerCase(periodName)
             matchingPeriods ==
                 SelectSeq(d.periods,
                     LAMBDA period : includes(toLowerCase(period.name), periodNamePattern))
             periodSculptures(period) ==
                 SelectSeq(d.sculptures,
                     LAMBDA sculpture : sculpture.period = period.id
                                        \/ sculpture.period = period.name)
             pairs(period) ==
                 [i \in 1..Len(periodSculptures(period)) |->
                     [sculpture |-> periodSculptures(period)[i], period |-> period]]
         IN  Returned(Flatten([k \in 1..Len(matchingPeriods) |-> pairs(matchingPeriods[k])]))

\* null, as a lookup of one entity returns it
Null == [null |-> TRUE]

\* the first entity of a collection with the id, or null
getById(d, collection, id) ==
    IF d.shape = "null" THEN Returned(Null)
    ELSE IF d.shape = "bad" THEN Threw
    ELSE LET found == SelectSeq(d[collection], LAMBDA entity : entity.id = id)
         IN  Returned(IF found = <<>> THEN Null ELSE found[1])

getSculptureById(d, id) == getById(d, "sculptures", id)

getArtistById(d, id) == getById(d, "artists", id)

getMaterialById(d, id) == getById(d, "materials", id)

getPeriodById(d, id) == getById(d, "periods", id)

getLocationById(d, id) == getById(d, "locations", id)

\* Array.find of searchSculptures: the first entity in store order whose id
\* or whose name equals the reference; <<>> when there is none
findByIdOrName(collection, reference) ==
    LET found == SelectSeq(collection,
                     LAMBDA entity : entity.id = reference \/ entity.name = reference)
    IN  IF found = <<>> THEN <<>> ELSE <<found[1]>>

\* one criterion of searchSculptures on a reference field: absent, or the
\* referenced entity exists and its name includes the criterion
referenceMatches(collection, reference, criterion) ==
    \/ ~Truthy(criterion)
    \/ LET match == findByIdOrName(collection, reference)
       IN  /\ match # <<>>
           /\ includes(toLowerCase(match[1].name), toLowerCase(criterion))

searchSculptures(d, params) ==
    IF d.shape = "null" THEN Returned(<<>>)
    ELSE IF d.shape = "bad" THEN Threw
    ELSE Returned(SelectSeq(d.sculptures, LAMBDA sculpture :
             /\ (~Truthy(params.name)
                 \/ includes(toLowerCase(sculpture.name), toLowerCase(params.name)))
             /\ referenceMatches(d.artists, sculpture.artist, params.artist)
             /\ referenceMatches(d.materials, sculpture.material, params.material)
             /\ referenceMatches(d.periods, sculpture.period, params.period)
             /\ referenceMatches(d.locations, sculpture.location, params.location)))

\* a dataset in which an artist's name is the id of a later artist
Dataset2 ==
    [shape |-> "ok",
     sculptures |-> << [id |-> <<"s", "3">>,
                      name |-> <<"U", "g", "o", "l", "i", "n", "o">>,
                      artist |-> <<"a", "2">>,
                      year |-> <<>>,
                      material |-> <<"M", "a", "r", "b", "l", "e">>,
                      period |-> <<>>,
                      location |-> <<>>,
                      description |-> <<>>,
                      imageUrl |-> <<>>,
                      visualDescription |-> <<>>] >>,
     artists |-> << [id |-> <<"a", "9">>,
                      name |-> <<"a", "2">>,
                      birthYear |-> <<>>,
                      deathYear |-> <<>>,
                      nationality |-> <<>>,
                      bio |-> <<>>],
                    [id |-> <<"a", "2">>,
                      name |-> <<"C", "a", "r", "p", "e", "a", "u", "x">>,
                      birthYear |-> <<>>,
                      deathYear |-> <<>>,
                      nationality |-> <<>>,
                      bio |-> <<>>] >>,
     materials |-> << [id |-> <<"m", "1">>,
                      name |-> <<"M", "a", "r", "b", "l", "e">>,
                      properties |-> <<>>,
                      uses |-> <<>>] >>,
     periods |-> <<>>,
     locations |-> <<>>]

FileDataset2 == [state |-> "json", json |-> Dataset2]

\* the data files of the store taken alone
StoreFiles == Files \cup {FileDataset2}

(***************************************************************************)
(* Context formatting (session.ts): a text block is a sequence of lines,   *)
(* a line is <<label, value>>; a falsy optional field emits no line.       *)
(***************************************************************************)
Line(label, value) == <<label, value>>

Opt(label, value) == IF Truthy(value) THEN <<Line(label, value)>> ELSE <<>>

formatSculptureInfo(sculptures) ==
    <<Line("SCULPTURE INFORMATION:", <<>>)>> \o
    Flatten([i \in 1..Len(sculptures) |->
        LET sculpture == sculptures[i]
        IN  <<Line("Name", sculpture.name)>>
            \o Opt("Artist", sculpture.artist)
            \o Opt("Year", sculpture.year)
            \o Opt("Material", sculpture.material)
            \o Opt("Location", sculpture.location)
            \o Opt("Description", sculpture.description)
            \o Opt("Image URL", sculpture.imageUrl)
            \o Opt("Visual Description", sculpture.visualDescription)
            \o <<Line("", <<>>)>>])

formatArtistSculptureInfo(results) ==
    <<Line("ARTIST AND SCULPTURE INFORMATION:", <<>>)>> \o
    Flatten([i \in 1..Len(results) |->
        LET sculpture == results[i].sculpture
            artist == results[i].artist
        IN  <<Line("Artist", artist.name)>>
            \o Opt("Born", artist.birthYear)
            \o Opt("Died", artist.deathYear)
            \o Opt("Nationality", artist.nationality)
            \o Opt("Biography", artist.bio)
            \o <<Line("", <<>>), Line("Sculpture", sculpture.name)>>
            \o Opt("Year", sculpture.year)
            \o Opt("Material", sculpture.material)
            \o Opt("Location", sculpture.location)
            \o Opt("Description", sculpture.description)
            \o Opt("Image URL", sculpture.imageUrl)
            \o Opt("Visual Description", sculpture.visualDescription)
            \o <<Line("", <<>>)>>])

formatMaterialSculptureInfo(results) ==
    <<Line("MATERIAL AND SCULPTURE INFORMATION:", <<>>)>> \o
    Flatten([i \in 1..Len(results) |->
        LET sculpture == results[i].sculpture
            material == results[i].material
        IN  <<Line("Material", material.name)>>
            \o Opt("Properties", material.properties)
            \o Opt("Common Uses", material.uses)
            \o <<Line("", <<>>), Line("Sculpture", sculpture.name)>>
            \o Opt("Artist", sculpture.artist)
            \o Opt("Year", sculpture.year)
            \o Opt("Location", sculpture.location)
            \o Opt("Description", sculpture.description)
            \o Opt("Image URL", sculpture.imageUrl)
            \o Opt("Visual Description", sculpture.visualDescription)
            \o <<Line("", <<>>)>>])

formatPeriodSculptureInfo(results) ==
    <<Line("PERIOD AND SCULPTURE INFORMATION:", <<>>)>> \o
    Flatten([i \in 1..Len(results) |->
        LET sculpture == results[i].sculpture
            period == results[i].period
        IN  <<Line("Period", period.name)>>
            \o Opt("Started", period.startYear)
            \o Opt("Ended", period.endYear)
            \o Opt("Characteristics", period.characteristics)
            \o <<Line("", <<>>), Line("Sculpture", sculpture.name)>>
            \o Opt("Artist", sculpture.artist)
            \o Opt("Year", sculpture.year)
            \o Opt("Material", sculpture.material)
            \o Opt("Location", sculpture.location)
            \o Opt("Description", sculpture.description)
            \o Opt("Image URL", sculpture.imageUrl)
            \o Opt("Visual Description", sculpture.visualDescription)
            \o <<Line("", <<>>)>>])

(***************************************************************************)
(* Enrichment (RTSession.enrichWithSculptureData).                         *)
(*                                                                         *)
(* Categories in the order of the code: 1 sculpture name, 2 artist,        *)
(* 3 material, 4 period.  Every lookup is awaited: one whose data is       *)
(* loaded has computed its result when it is called, one whose data is not *)
(* loaded awaits its own loadData first.                                   *)
(***************************************************************************)
Mentions(userMessage) ==
    << extractSculptureTerms(userMessage),
       extractArtistTerms(userMessage),
       extractMaterialTerms(userMessage),
       extractPeriodTerms(userMessage) >>

Lookup(cat, d, term) ==
    CASE cat = 1 -> findSculptureByName(d, term)
      [] cat = 2 -> getSculpturesByArtist(d, term)
      [] cat = 3 -> getSculpturesByMaterial(d, term)
      [] cat = 4 -> getSculpturesByPeriod(d, term)

Format(cat, results) ==
    CASE cat = 1 -> formatSculptureInfo(results)
      [] cat = 2 -> formatArtistSculptureInfo(results)
      [] cat = 3 -> formatMaterialSculptureInfo(results)
      [] cat = 4 -> formatPeriodSculptureInfo(results)

ContextPrefix == "Here is relevant information about the sculptures from the database: "

ContextText(contextMessage) == <<Line(ContextPrefix, <<>>)>> \o contextMessage

\* where enrichment stands: k is "lookup" (a lookup was called and is
\* awaited), "context" (a context item is to be submitted), "none" (no
\* category yielded) or "threw" (an exception reached the catch of
\* enrichWithSculptureData)
Outcome(k, cat, idx, text) ==
    [k |-> k, cat |-> cat, idx |-> idx, text |-> text,
     loading |-> FALSE, result |-> Returned(<<>>)]

\* lookup idx of category cat is called with data d: with no data it calls
\* loadData and computes its result afterwards
Awaited(cat, idx, d, term) ==
    [k |-> "lookup", cat |-> cat, idx |-> idx, text |-> <<>>,
     loading |-> d.shape = "null",
     result |-> IF d.shape = "null" THEN Returned(<<>>) ELSE Lookup(cat, d, term)]

RECURSIVE enrichFrom(_, _, _, _, _)
\* the loops of enrichWithSculptureData, about to issue the lookup of term idx
\* of category cat; ds is this.dataService, d the data of the service
enrichFrom(cat, idx, ment, ds, d) ==
    IF cat > 4 THEN Outcome("none", 0, 0, <<>>)
    ELSE IF idx > Len(ment[cat]) THEN enrichFrom(cat + 1, 1, ment, ds, d)
    ELSE IF ds = "null" THEN Outcome("threw", cat, idx, <<>>)
    ELSE Awaited(cat, idx, d, ment[cat][idx])

RECURSIVE laterResults(_, _, _)
\* the formatted first results of the categories from cat on, from data d
laterResults(cat, ment, d) ==
    IF cat > 4 THEN <<>>
    ELSE LET hits == SelectSeq(ment[cat], LAMBDA term : Len(Lookup(cat, d, term).value) > 0)
         IN  (IF hits = <<>> THEN <<>> ELSE Format(cat, Lookup(cat, d, hits[1]).value))
             \o laterResults(cat + 1, ment, d)

\* a lookup whose empty result counts as a result
lookupReturnsAny(cat, idx, ment, ds, d, results) ==
    IF results.threw THEN Outcome("threw", cat, idx, <<>>)
    ELSE Outcome("context", cat, idx, ContextText(Format(cat, results.value)))

\* a lookup after whose result the later categories are still tried, and
\* their results added to the context
lookupReturnsNoStop(cat, idx, ment, ds, d, results) ==
    IF results.threw THEN Outcome("threw", cat, idx, <<>>)
    ELSE IF Len(results.value) > 0
         THEN Outcome("context", cat, idx,
                  ContextText(Format(cat, results.value) \o laterResults(cat + 1, ment, d)))
         ELSE enrichFrom(cat, idx + 1, ment, ds, d)

\* the awaited lookup of term idx of category cat has returned results: the
\* loops go on, with this.dataService ds and the data d as they are now
lookupReturns(cat, idx, ment, ds, d, results) ==
    IF results.threw THEN Outcome("threw", cat, idx, <<>>)
    ELSE IF Len(results.value) > 0
         THEN Outcome("context", cat, idx, ContextText(Format(cat, results.value)))
         ELSE enrichFrom(cat, idx + 1, ment, ds, d)

(***************************************************************************)
(* Inputs.                                                                 *)
(***************************************************************************)
TextEmpty == <<>>

TextLunch == <<"W", "h", "a", "t", "'", "s", " ", "f", "o", "r", " ", "l", "u", "n", "c", "h", "?">>

TextDavid == <<"T", "e", "l", "l", " ", "m", "e", " ", "a", "b", "o", "u", "t", " ", "D", "A", "V", "I", "D">>

TextPietaRodin == <<"a", " ", "P", "i", "e", "t", "a", " ", "b", "y", " ", "R", "o", "d", "i", "n">>

TextBaroque == <<"b", "a", "r", "o", "q", "u", "e", " ", "a", "r", "t">>

TextPietaThinker ==
    <<"P", "i", "e", "t", "a", ",", " ", "T", "h", "e", " ", "T", "h", "i", "n", "k", "e", "r", ",", " ", "M", "i", "c", "h", "e", "l", "a", "n", "g", "e", "l", "o">>

TextMichelangelos ==
    <<"I", " ", "l", "o", "v", "e", " ", "M", "I", "C", "H", "E", "L", "A", "N", "G", "E", "L", "O", "'", "s", " ", "m", "a", "r", "b", "l", "e", "s">>

UserTexts ==
    {TextEmpty, TextLunch, TextDavid, TextPietaRodin, TextPietaThinker, TextBaroque,
     TextMichelangelos}

UserMessage(t) == [json |-> "object", type |-> "user_message", text |-> t]

UserMessages == {UserMessage(t) : t \in UserTexts}

\* inbound text frames, by what JSON.parse makes of them
TextFrames ==
    {[json |-> "malformed", type |-> "", text |-> <<>>],
     [json |-> "null", type |-> "", text |-> <<>>],
     [json |-> "object", type |-> "text_delta", text |-> TextDavid]}
    \cup UserMessages

\* text frames whose handling issues no lookup and no context item
PlainTextFrames ==
    {[json |-> "malformed", type |-> "", text |-> <<>>],
     [json |-> "null", type |-> "", text |-> <<>>],
     [json |-> "object", type |-> "text_delta", text |-> TextDavid],
     UserMessage(TextEmpty), UserMessage(TextLunch)}

\* inbound binary frames
AudioInputs == {<<7, 8>>, <<9>>}

\* outcomes of a call on the remote session
Outcomes == {"ok", "fail"}

(***************************************************************************)
(* State.                                                                  *)
(***************************************************************************)
VARIABLES
    file,         \* the data file (environment)
    dataService,  \* RTSession.dataService: "null" or "service"
    data,         \* JsonDataService.data
    initLoad,     \* initializeDataService: "loading", "loaded" or "failed"
    initPc,       \* initialize: "configuring", "done" or "failed"
    wsOpen,       \* the transport is open
    closePc,      \* handleClose: "idle", "closing", "closed" or "failed"
    handlers,     \* one handleMessage invocation per inbound frame
    calls,        \* the calls issued on the remote session, in order
    frames,       \* the frames handed to ws.send, in order
    loop,         \* startEventLoop and the handlers it awaits
    delivered,    \* what the remote streams yielded, in order
    ops           \* the operations called on a JsonDataService directly, with their results

vars == <<file, dataService, data, initLoad, initPc, wsOpen, closePc,
          handlers, calls, frames, loop, delivered, ops>>



(***************************************************************************)
(* Calls on the remote session (RTClient).                                 *)
(***************************************************************************)
Call(op, role, text, by) ==
    [op |-> op, role |-> role, text |-> text, by |-> by, res |-> "pending"]

SystemPrompt1 ==
    "You are a friendly and enthusiastic sculpture guide named Art. Your tone is warm, engaging, and conversational - like a passionate friend sharing interesting stories about art. You love to make sculpture knowledge accessible and fun for everyone. Use casual language, occasional humor, and relatable examples when explaining complex concepts. When you receive questions about sculptures, use the database information provided to answer accurately, but present it in an engaging, conversational way. If specific information isn't available in the database, you may provide general knowledge, but clearly indicate this with phrases like 'Beyond our collection...' or 'Art historians generally believe...'"

SystemPrompt2 ==
    "The database contains fascinating information about sculptures, including details about the artists, materials used, historical context, and where they are currently displayed. It also includes image URLs and detailed visual descriptions of each sculpture. For visually impaired users, emphasize these visual descriptions to help them form a mental image of the artwork. When discussing any sculpture, always include its visual aspects - describe colors, shapes, textures, expressions, poses, and other important visual elements in rich, evocative language. Share this information with enthusiasm and help users discover the amazing stories and visual beauty behind these works. Feel free to express appreciation for the craftsmanship and beauty of the sculptures you discuss. Respond as if you're giving a personal, immersive tour through a museum - knowledgeable but approachable and engaging, with special attention to helping visually impaired users experience the art through your descriptions."

Settle(cs, k, res) == [cs EXCEPT ![k].res = res]

(***************************************************************************)
(* Frames to the client.                                                   *)
(***************************************************************************)
NoId == <<>>

Frame(kind, type, action, id, body) ==
    [kind |-> kind, type |-> type, action |-> action, id |-> id, body |-> body]

Greeting ==
    "Hey there! I'm your friendly sculpture guide. Feel free to ask me anything about sculptures!"

Connected == Frame("json", "control", "connected", NoId, Greeting)

SpeechStarted == Frame("json", "control", "speech_started", NoId, "")

TextDone(id) == Frame("json", "control", "text_done", id, "")

\* a delta frame identified by the item alone
TextDeltaItemId(id, delta) == Frame("json", "text_delta", "", SubSeq(id, 1, 1), delta)

TextDelta(id, delta) == Frame("json", "text_delta", "", id, delta)

Transcription(id, text) == Frame("json", "transcription", "", id, text)

\* RTSession.send
send(fs, message) == Append(fs, message)

\* the bytes sendBinary is given for one audio chunk: the chunk's buffer when
\* it is an ArrayBuffer, otherwise a fresh zero-filled buffer of its length
ChunkBuffer(chunk) ==
    IF chunk.isArrayBuffer THEN chunk.buffer
    ELSE [i \in 1..Len(chunk.buffer) |-> 0]

\* a binary frame that overtakes the frames already handed over
sendBinaryFirst(fs, buffer) == <<Frame("binary", "", "", NoId, buffer)>> \o fs

\* RTSession.sendBinary
sendBinary(fs, buffer) == Append(fs, Frame("binary", "", "", NoId, buffer))

(***************************************************************************)
(* Construction (RTSession constructor): the handlers are registered, the  *)
(* data service is created and its load started, configure is issued.      *)
(***************************************************************************)
\* an event loop that consumes events from construction on
StartedLoop ==
    [pc |-> "events", item |-> 0, index |-> 0, content |-> NoId, audioContent |-> NoId,
     audio |-> "none", transcript |-> "none",
     nYields |-> 0, nItems |-> 0, nChunks |-> 0,
     logged |-> <<>>]

\* the event loop at construction: not started
IdleLoop ==
    [pc |-> "idle", item |-> 0, index |-> 0, content |-> NoId, audioContent |-> NoId,
     audio |-> "none", transcript |-> "none",
     nYields |-> 0, nItems |-> 0, nChunks |-> 0,
     logged |-> <<>>]

Init ==
    /\ file \in Files
    /\ dataService = "service"
    /\ data = NoData
    /\ initLoad = "loading"
    /\ initPc = "configuring"
    /\ wsOpen = TRUE
    /\ closePc = "idle"
    /\ handlers = <<>>
    /\ calls = <<Call("configure", "", <<>>, 0)>>
    /\ frames = <<>>
    /\ loop = IdleLoop
    /\ delivered = <<>>
    /\ ops = <<>>

(***************************************************************************)
(* initializeDataService, after its await of loadData.                     *)
(***************************************************************************)
InitializeDataService ==
    /\ initLoad = "loading"
    /\ LET loaded == loadData(file, data)
       IN  /\ data' = loaded.data
           /\ initLoad' = IF loaded.ok THEN "loaded" ELSE "failed"
           /\ dataService' = IF loaded.ok THEN dataService ELSE "null"
    /\ UNCHANGED <<file, ops, initPc, wsOpen, closePc, handlers, calls, frames,
                   loop, delivered>>

(***************************************************************************)
(* handleMessage: one invocation per inbound frame.                        *)
(***************************************************************************)
Handler(kind, pc, text, ment) ==
    [kind |-> kind, type |-> "", pc |-> pc, text |-> text, ment |-> ment,
     cat |-> 0, idx |-> 0, loading |-> FALSE, result |-> Returned(<<>>),
     call |-> 0, enrich |-> "no", logged |-> <<>>]

\* handleTextMessage issues the user item: there was no enrichment, or its
\* await of enrichWithSculptureData has resumed
submitUser(i, h, cs) ==
    [h |-> [h EXCEPT !.pc = "userItem", !.call = Len(cs) + 1],
     calls |-> Append(cs, Call("sendItem", "user", h.text, i))]

\* enrichment that submits the user item before the context item
proceedUserFirst(i, h, out, cs) ==
    CASE out.k = "lookup" ->
           [h |-> [h EXCEPT !.pc = "lookup", !.cat = out.cat, !.idx = out.idx,
                            !.loading = out.loading, !.result = out.result,
                            !.enrich = "running"],
            calls |-> cs]
      [] out.k = "context" ->
           [h |-> [h EXCEPT !.pc = "userItem", !.cat = out.cat, !.idx = out.idx,
                            !.loading = FALSE, !.result = Returned(<<>>),
                            !.call = Len(cs) + 1, !.enrich = "context"],
            calls |-> cs \o <<Call("sendItem", "user", h.text, i),
                              Call("sendItem", "system", out.text, i)>>]
      [] out.k = "none" ->
           [h |-> [h EXCEPT !.pc = "enrich", !.loading = FALSE, !.result = Returned(<<>>),
                            !.enrich = "none"],
            calls |-> cs]
      [] out.k = "threw" ->
           [h |-> [h EXCEPT !.pc = "enrich", !.loading = FALSE, !.result = Returned(<<>>),
                            !.enrich = "failed",
                            !.logged = Append(@, "Error enriching message with sculpture data")],
            calls |-> cs]

\* enrichment without its catch: the exception reaches handleMessage
proceedRethrow(i, h, out, cs) ==
    CASE out.k = "lookup" ->
           [h |-> [h EXCEPT !.pc = "lookup", !.cat = out.cat, !.idx = out.idx,
                            !.loading = out.loading, !.result = out.result,
                            !.enrich = "running"],
            calls |-> cs]
      [] out.k = "context" ->
           [h |-> [h EXCEPT !.pc = "contextItem", !.cat = out.cat, !.idx = out.idx,
                            !.loading = FALSE, !.result = Returned(<<>>),
                            !.call = Len(cs) + 1, !.enrich = "context"],
            calls |-> Append(cs, Call("sendItem", "system", out.text, i))]
      [] out.k = "none" ->
           [h |-> [h EXCEPT !.pc = "enrich", !.loading = FALSE, !.result = Returned(<<>>),
                            !.enrich = "none"],
            calls |-> cs]
      [] out.k = "threw" ->
           [h |-> [h EXCEPT !.pc = "failed", !.loading = FALSE, !.result = Returned(<<>>),
                            !.enrich = "failed",
                            !.logged = @ \o <<"Failed to process user message",
                                              "Error handling message">>],
            calls |-> cs]

\* enrichWithSculptureData runs on from outcome out, up to its next await or
\* to its return; when it has returned (pc "enrich"), the await of it in
\* handleTextMessage resumes on a later turn
proceed(i, h, out, cs) ==
    CASE out.k = "lookup" ->
           [h |-> [h EXCEPT !.pc = "lookup", !.cat = out.cat, !.idx = out.idx,
                            !.loading = out.loading, !.result = out.result,
                            !.enrich = "running"],
            calls |-> cs]
      [] out.k = "context" ->
           [h |-> [h EXCEPT !.pc = "contextItem", !.cat = out.cat, !.idx = out.idx,
                            !.loading = FALSE, !.result = Returned(<<>>),
                            !.call = Len(cs) + 1, !.enrich = "context"],
            calls |-> Append(cs, Call("sendItem", "system", out.text, i))]
      [] out.k = "none" ->
           [h |-> [h EXCEPT !.pc = "enrich", !.loading = FALSE, !.result = Returned(<<>>),
                            !.enrich = "none"],
            calls |-> cs]
      [] out.k = "threw" ->
           [h |-> [h EXCEPT !.pc = "enrich", !.loading = FALSE, !.result = Returned(<<>>),
                            !.enrich = "failed",
                            !.logged = Append(@, "Error enriching message with sculpture data")],
            calls |-> cs]

\* a handler that forwards the first byte of the frame only
handleBinaryMessageHead(i, message, cs) ==
    [h |-> [Handler("binary", "sendAudio", message, <<>>) EXCEPT !.call = Len(cs) + 1],
     calls |-> Append(cs, Call("sendAudio", "", SubSeq(message, 1, 1), i))]

\* handleBinaryMessage up to its await; the handler keeps the frame it received
handleBinaryMessage(i, message, cs) ==
    [h |-> [Handler("binary", "sendAudio", message, <<>>) EXCEPT !.call = Len(cs) + 1],
     calls |-> Append(cs, Call("sendAudio", "", message, i))]

\* a handler that treats every JSON object as a user message
handleTextMessageAnyType(i, message, cs, ds, d) ==
    IF message.json # "object"
    THEN [h |-> [Handler("text", "failed", <<>>, <<>>) EXCEPT
                     !.logged = <<"Error handling message">>],
          calls |-> cs]
    ELSE LET h == [Handler("text", "start", message.text, Mentions(message.text))
                       EXCEPT !.type = message.type]
         IN  IF ds # "null" /\ Truthy(message.text)
             THEN proceed(i, h, enrichFrom(1, 1, h.ment, ds, d), cs)
             ELSE submitUser(i, h, cs)

\* handleTextMessage up to its first await, or to its end; the handler keeps
\* the type of the frame it received
handleTextMessage(i, message, cs, ds, d) ==
    IF message.json # "object"
    THEN \* JSON.parse throws, or parsed.type throws on null: caught by handleMessage
         [h |-> [Handler("text", "failed", <<>>, <<>>) EXCEPT
                     !.logged = <<"Error handling message">>],
          calls |-> cs]
    ELSE IF message.type # "user_message"
    THEN [h |-> [Handler("text", "done", <<>>, <<>>) EXCEPT !.type = message.type],
          calls |-> cs]
    ELSE LET h == [Handler("text", "start", message.text, Mentions(message.text))
                       EXCEPT !.type = message.type]
         IN  IF ds # "null" /\ Truthy(message.text)
             THEN proceed(i, h, enrichFrom(1, 1, h.ment, ds, d), cs)
             ELSE submitUser(i, h, cs)

\* a binary frame arrives
HandleBinary(max) ==
    /\ wsOpen
    /\ Len(handlers) < max
    /\ \E message \in AudioInputs :
          LET r == handleBinaryMessage(Len(handlers) + 1, message, calls)
          IN  /\ handlers' = Append(handlers, r.h)
              /\ calls' = r.calls
    /\ UNCHANGED <<file, ops, dataService, data, initLoad, initPc, wsOpen, closePc,
                   frames, loop, delivered>>

\* a text frame arrives, one of textFrames
HandleText(textFrames, max) ==
    /\ wsOpen
    /\ Len(handlers) < max
    /\ \E message \in textFrames :
          LET r == handleTextMessage(Len(handlers) + 1, message, calls, dataService, data)
          IN  /\ handlers' = Append(handlers, r.h)
              /\ calls' = r.calls
    /\ UNCHANGED <<file, ops, dataService, data, initLoad, initPc, wsOpen, closePc,
                   frames, loop, delivered>>

\* the lookup a handler awaits returns, after the loadData it called if the
\* data was not loaded
LookupReturned(i) ==
    /\ handlers[i].pc = "lookup"
    /\ LET h == handlers[i]
           d == IF h.loading THEN loadData(file, data).data ELSE data
           results == IF h.loading THEN Lookup(h.cat, d, h.ment[h.cat][h.idx]) ELSE h.result
           r == proceed(i, h, lookupReturns(h.cat, h.idx, h.ment, dataService, d, results),
                        calls)
       IN  /\ data' = d
           /\ handlers' = [handlers EXCEPT ![i] = r.h]
           /\ calls' = r.calls
    /\ UNCHANGED <<file, ops, dataService, initLoad, initPc, wsOpen, closePc,
                   frames, loop, delivered>>

\* sendItem of the context item settles: enrichment returns either way
ContextItemSettled(i) ==
    /\ handlers[i].pc = "contextItem"
    /\ \E res \in Outcomes :
          /\ handlers' = [handlers EXCEPT ![i] =
                 IF res = "ok" THEN [@ EXCEPT !.pc = "enrich"]
                 ELSE [@ EXCEPT !.pc = "enrich", !.enrich = "failed",
                                !.logged = Append(@, "Error enriching message with sculpture data")]]
          /\ calls' = Settle(calls, handlers[i].call, res)
    /\ UNCHANGED <<file, ops, dataService, data, initLoad, initPc, wsOpen, closePc,
                   frames, loop, delivered>>

\* the await of enrichWithSculptureData resumes
EnrichReturned(i) ==
    /\ handlers[i].pc = "enrich"
    /\ LET r == submitUser(i, handlers[i], calls)
       IN  /\ handlers' = [handlers EXCEPT ![i] = r.h]
           /\ calls' = r.calls
    /\ UNCHANGED <<file, ops, dataService, data, initLoad, initPc, wsOpen, closePc,
                   frames, loop, delivered>>

\* the inner catch alone: handleMessage does not catch
rethrownUncaught(h, message) ==
    [h EXCEPT !.pc = "failed", !.logged = Append(@, message)]

\* the catch of handleTextMessage or handleBinaryMessage, then of handleMessage
rethrown(h, message) ==
    [h EXCEPT !.pc = "failed",
              !.logged = @ \o <<message, "Error handling message">>]

\* a handler that requests a response whatever became of the user item
UserItemSettledAlways(i) ==
    /\ handlers[i].pc = "userItem"
    /\ \E res \in Outcomes :
          LET h == handlers[i]
              settled == Settle(calls, h.call, res)
          IN  /\ handlers' = [handlers EXCEPT ![i] =
                     [h EXCEPT !.pc = "generate", !.call = Len(settled) + 1]]
              /\ calls' = Append(settled, Call("generateResponse", "", <<>>, i))
    /\ UNCHANGED <<file, ops, dataService, data, initLoad, initPc, wsOpen, closePc,
                   frames, loop, delivered>>

\* sendItem of the user item settles
UserItemSettled(i) ==
    /\ handlers[i].pc = "userItem"
    /\ \E res \in Outcomes :
          LET h == handlers[i]
              settled == Settle(calls, h.call, res)
          IN  IF res = "ok"
              THEN /\ handlers' = [handlers EXCEPT ![i] =
                          [h EXCEPT !.pc = "generate", !.call = Len(settled) + 1]]
                   /\ calls' = Append(settled, Call("generateResponse", "", <<>>, i))
              ELSE /\ handlers' = [handlers EXCEPT ![i] =
                          rethrown(h, "Failed to process user message")]
                   /\ calls' = settled
    /\ UNCHANGED <<file, ops, dataService, data, initLoad, initPc, wsOpen, closePc,
                   frames, loop, delivered>>

\* generateResponse settles
GenerateSettled(i) ==
    /\ handlers[i].pc = "generate"
    /\ \E res \in Outcomes :
          /\ handlers' = [handlers EXCEPT ![i] =
                 IF res = "ok" THEN [@ EXCEPT !.pc = "done"]
                 ELSE rethrown(@, "Failed to process user message")]
          /\ calls' = Settle(calls, handlers[i].call, res)
    /\ UNCHANGED <<file, ops, dataService, data, initLoad, initPc, wsOpen, closePc,
                   frames, loop, delivered>>

\* sendAudio settles
SendAudioSettled(i) ==
    /\ handlers[i].pc = "sendAudio"
    /\ \E res \in Outcomes :
          /\ handlers' = [handlers EXCEPT ![i] =
                 IF res = "ok" THEN [@ EXCEPT !.pc = "done"]
                 ELSE rethrown(@, "Failed to send audio data")]
          /\ calls' = Settle(calls, handlers[i].call, res)
    /\ UNCHANGED <<file, ops, dataService, data, initLoad, initPc, wsOpen, closePc,
                   frames, loop, delivered>>

(***************************************************************************)
(* initialize, after its await of configure; startEventLoop up to its      *)
(* first await.                                                            *)
(***************************************************************************)
\* startEventLoop issues the two prompt items without awaiting them
startEventLoop(cs) ==
    cs \o <<Call("sendItem", "system", SystemPrompt1, 0),
            Call("sendItem", "system", SystemPrompt2, 0)>>

Initialize ==
    /\ initPc = "configuring"
    /\ \E res \in Outcomes :
          IF res = "ok"
          THEN /\ initPc' = "done"
               /\ frames' = send(frames, Connected)
               /\ calls' = startEventLoop(Settle(calls, 1, res))
               /\ loop' = [loop EXCEPT !.pc = "events"]
          ELSE /\ initPc' = "failed"
               /\ calls' = Settle(calls, 1, res)
               /\ UNCHANGED <<frames, loop>>
    /\ UNCHANGED <<file, ops, dataService, data, initLoad, wsOpen, closePc,
                   handlers, delivered>>

(***************************************************************************)
(* handleClose: the transport closes, close is issued on the remote        *)
(* session and awaited.                                                    *)
(***************************************************************************)
\* a close handler that closes the remote session of a configured session only
HandleCloseWhenActive ==
    /\ wsOpen
    /\ wsOpen' = FALSE
    /\ closePc' = IF initPc = "done" THEN "closing" ELSE closePc
    /\ calls' = IF initPc = "done" THEN Append(calls, Call("close", "", <<>>, 0)) ELSE calls
    /\ UNCHANGED <<file, ops, dataService, data, initLoad, initPc, handlers,
                   frames, loop, delivered>>

HandleClose ==
    /\ wsOpen
    /\ wsOpen' = FALSE
    /\ closePc' = "closing"
    /\ calls' = Append(calls, Call("close", "", <<>>, 0))
    /\ UNCHANGED <<file, ops, dataService, data, initLoad, initPc, handlers,
                   frames, loop, delivered>>

CloseCall == CHOOSE k \in 1..Len(calls) : calls[k].op = "close"

CloseSettled ==
    /\ closePc = "closing"
    /\ \E res \in Outcomes :
          /\ closePc' = IF res = "ok" THEN "closed" ELSE "failed"
          /\ calls' = Settle(calls, CloseCall, res)
    /\ UNCHANGED <<file, ops, dataService, data, initLoad, initPc, wsOpen,
                   handlers, frames, loop, delivered>>

(***************************************************************************)
(* The event loop (startEventLoop, handleResponse, handleInputAudio,       *)
(* handleTextContent, handleAudioContent).  Each action is one value        *)
(* yielded by a remote stream together with what the code does on it.      *)
(***************************************************************************)
\* the n-th chunk the remote yields, as a text or transcript chunk: the text n
Deltas(n) == {n}

\* the n-th chunk the remote yields, as an audio chunk: a typed array over a
\* buffer holding n
AudioChunks(n) == {[buffer |-> <<n>>, isArrayBuffer |-> b] : b \in BOOLEAN}

\* event.transcription of a completed input-audio item
NoTranscription == "undefined"

Transcriptions == {NoTranscription, "", "hello"}

\* the transcription as it is, absent or not
orEmptyRaw(t) == t

\* event.transcription || ""
orEmpty(t) == IF t = NoTranscription \/ t = "" THEN "" ELSE t

ItemId(n) == <<n>>

\* `${content.itemId}-${content.contentIndex}`
ContentId(itemId, contentIndex) == Append(itemId, contentIndex)

Yield(s, id, value) == [s |-> s, id |-> id, value |-> value]

\* an error thrown inside the loop: each catch on the way logs and rethrows
loopFails(l, messages) ==
    [l EXCEPT !.pc = "failed", !.logged = @ \o messages \o <<"Error in event loop">>]

streamUnchanged ==
    UNCHANGED <<file, ops, dataService, data, initLoad, initPc, wsOpen, closePc,
                handlers, calls>>

\* client.events() yields a response
EventResponse ==
    /\ loop.pc = "events"
    /\ loop.nYields < MaxYields
    /\ loop' = [loop EXCEPT !.pc = "items", !.nYields = @ + 1]
    /\ delivered' = Append(delivered, Yield("response", NoId, ""))
    /\ UNCHANGED frames
    /\ streamUnchanged

\* client.events() yields an input-audio item: handleInputAudio up to its await
EventInputAudio ==
    /\ loop.pc = "events"
    /\ loop.nYields < MaxYields
    /\ loop' = [loop EXCEPT !.pc = "input", !.nYields = @ + 1,
                            !.nItems = @ + 1, !.item = loop.nItems + 1]
    /\ delivered' = Append(delivered, Yield("input_audio", ItemId(loop.nItems + 1), ""))
    /\ frames' = send(frames, SpeechStarted)
    /\ streamUnchanged

\* client.events() ends
EventsEnd ==
    /\ loop.pc = "events"
    /\ loop' = [loop EXCEPT !.pc = "ended"]
    /\ UNCHANGED <<frames, delivered>>
    /\ streamUnchanged

\* client.events() throws
EventsFail ==
    /\ loop.pc = "events"
    /\ loop' = loopFails(loop, <<>>)
    /\ UNCHANGED <<frames, delivered>>
    /\ streamUnchanged

\* waitForCompletion resolves: the rest of handleInputAudio
InputCompleted ==
    /\ loop.pc = "input"
    /\ \E t \in Transcriptions :
          /\ frames' = send(frames, Transcription(ItemId(loop.item), orEmpty(t)))
          /\ delivered' = Append(delivered, Yield("completed", ItemId(loop.item), t))
    /\ loop' = [loop EXCEPT !.pc = "events"]
    /\ streamUnchanged

\* waitForCompletion rejects
InputFails ==
    /\ loop.pc = "input"
    /\ loop' = loopFails(loop, <<"Error handling input audio">>)
    /\ UNCHANGED <<frames, delivered>>
    /\ streamUnchanged

\* the response yields an item; only a message item is iterated
ItemNext ==
    /\ loop.pc = "items"
    /\ loop.nYields < MaxYields
    /\ \E type \in {"message", "function_call"} :
          /\ loop' = [loop EXCEPT !.pc = IF type = "message" THEN "contents" ELSE "items",
                                  !.nYields = @ + 1, !.nItems = @ + 1,
                                  !.item = loop.nItems + 1, !.index = 0]
          /\ delivered' = Append(delivered, Yield("item", ItemId(loop.nItems + 1), type))
    /\ UNCHANGED frames
    /\ streamUnchanged

\* the response ends: handleResponse returns
ItemsEnd ==
    /\ loop.pc = "items"
    /\ loop' = [loop EXCEPT !.pc = "events"]
    /\ UNCHANGED <<frames, delivered>>
    /\ streamUnchanged

\* the response throws
ItemsFail ==
    /\ loop.pc \in {"items", "contents"}
    /\ loop' = loopFails(loop, <<"Error handling response">>)
    /\ UNCHANGED <<frames, delivered>>
    /\ streamUnchanged

\* the message item yields a content: handleTextContent or handleAudioContent
\* up to its first await
ContentNext ==
    /\ loop.pc = "contents"
    /\ loop.nYields < MaxYields
    /\ \E type \in {"text", "audio"} :
          /\ loop' = [loop EXCEPT !.pc = type, !.nYields = @ + 1,
                                  !.content = ContentId(ItemId(loop.item), loop.index),
                                  !.index = @ + 1,
                                  !.audioContent = IF type = "audio"
                                      THEN ContentId(ItemId(loop.item), loop.index) ELSE @,
                                  !.audio = IF type = "audio" THEN "running" ELSE @,
                                  !.transcript = IF type = "audio" THEN "running" ELSE @]
          /\ delivered' = Append(delivered,
                 Yield("content", ContentId(ItemId(loop.item), loop.index), type))
    /\ UNCHANGED frames
    /\ streamUnchanged

\* the message item ends
ContentsEnd ==
    /\ loop.pc = "contents"
    /\ loop' = [loop EXCEPT !.pc = "items"]
    /\ UNCHANGED <<frames, delivered>>
    /\ streamUnchanged

\* textChunks() yields a chunk
TextChunk ==
    /\ loop.pc = "text"
    /\ loop.nYields < MaxYields
    /\ \E text \in Deltas(loop.nChunks + 1) :
          /\ frames' = send(frames, TextDelta(loop.content, text))
          /\ delivered' = Append(delivered, Yield("text", loop.content, text))
    /\ loop' = [loop EXCEPT !.nYields = @ + 1, !.nChunks = @ + 1]
    /\ streamUnchanged

\* textChunks() ends: handleTextContent returns
TextEnd ==
    /\ loop.pc = "text"
    /\ frames' = send(frames, TextDone(loop.content))
    /\ delivered' = Append(delivered, Yield("textEnd", loop.content, ""))
    /\ loop' = [loop EXCEPT !.pc = "contents"]
    /\ streamUnchanged

\* textChunks() throws
TextFails ==
    /\ loop.pc = "text"
    /\ loop' = loopFails(loop, <<"Error handling text content", "Error handling response">>)
    /\ UNCHANGED <<frames, delivered>>
    /\ streamUnchanged

\* a join that is over as soon as one sub-stream has ended
joinedEither(l) ==
    IF l.pc # "audio" THEN l
    ELSE IF l.audio = "failed" \/ l.transcript = "failed"
    THEN loopFails(l, <<"Error handling audio content", "Error handling response">>)
    ELSE IF l.audio = "done" \/ l.transcript = "done"
    THEN [l EXCEPT !.pc = "contents"]
    ELSE l

\* a join whose rejection is swallowed: the response is iterated further
\* while the other sub-stream runs on
joinedSwallow(l) ==
    IF l.pc # "audio" THEN l
    ELSE IF l.audio = "failed" \/ l.transcript = "failed"
    THEN [l EXCEPT !.pc = "contents", !.logged = Append(@, "Error handling audio content")]
    ELSE IF l.audio = "done" /\ l.transcript = "done"
    THEN [l EXCEPT !.pc = "contents"]
    ELSE l

\* Promise.all of handleAudioContent: resolved when both sub-streams have
\* ended, rejected as soon as one throws; the other sub-stream runs on
joined(l) ==
    IF l.pc # "audio" THEN l
    ELSE IF l.audio = "failed" \/ l.transcript = "failed"
    THEN loopFails(l, <<"Error handling audio content", "Error handling response">>)
    ELSE IF l.audio = "done" /\ l.transcript = "done"
    THEN [l EXCEPT !.pc = "contents"]
    ELSE l

\* audioChunks() yields a chunk
AudioChunk ==
    /\ loop.audio = "running"
    /\ loop.nYields < MaxYields
    /\ \E chunk \in AudioChunks(loop.nChunks + 1) :
          /\ frames' = sendBinary(frames, ChunkBuffer(chunk))
          /\ delivered' = Append(delivered, Yield("audio", loop.audioContent, chunk))
    /\ loop' = [loop EXCEPT !.nYields = @ + 1, !.nChunks = @ + 1]
    /\ streamUnchanged

\* audioChunks() ends, or throws
AudioEnd ==
    /\ loop.audio = "running"
    /\ \E res \in {"done", "failed"} :
          /\ loop' = joined([loop EXCEPT !.audio = res])
          /\ delivered' = Append(delivered, Yield("audioEnd", loop.audioContent, res))
    /\ UNCHANGED frames
    /\ streamUnchanged

\* transcriptChunks() yields a chunk
TranscriptChunk ==
    /\ loop.transcript = "running"
    /\ loop.nYields < MaxYields
    /\ \E chunk \in Deltas(loop.nChunks + 1) :
          /\ frames' = send(frames, TextDelta(loop.audioContent, chunk))
          /\ delivered' = Append(delivered, Yield("transcript", loop.audioContent, chunk))
    /\ loop' = [loop EXCEPT !.nYields = @ + 1, !.nChunks = @ + 1]
    /\ streamUnchanged

\* transcriptChunks() ends: text_done is sent
TranscriptEnd ==
    /\ loop.transcript = "running"
    /\ frames' = send(frames, TextDone(loop.audioContent))
    /\ delivered' = Append(delivered, Yield("transcriptEnd", loop.audioContent, ""))
    /\ loop' = joined([loop EXCEPT !.transcript = "done"])
    /\ streamUnchanged

\* transcriptChunks() throws
TranscriptFails ==
    /\ loop.transcript = "running"
    /\ loop' = joined([loop EXCEPT !.transcript = "failed"])
    /\ UNCHANGED <<frames, delivered>>
    /\ streamUnchanged

(***************************************************************************)
(* A JsonDataService taken alone: its operations are called, awaited or    *)
(* not, while the data file may change on disk.  An operation that reads   *)
(* the file is suspended until readFile completes, with the content the    *)
(* file had at some moment since the call; a lookup whose data is loaded   *)
(* has its result when it is called.                                       *)
(***************************************************************************)
sessionUnchanged ==
    UNCHANGED <<dataService, initLoad, initPc, wsOpen, closePc, handlers,
                calls, frames, loop, delivered>>

NameArgs == {<<"d", "a", "v", "i", "d">>, <<"z", "z">>}

ArtistArgs == {<<"r", "o", "d", "i", "n">>}

MaterialArgs == {<<"m", "a", "r", "b", "l", "e">>}

PeriodArgs == {<<"r", "e", "n", "a", "i", "s", "s", "a", "n", "c", "e">>}

Collections == {"sculptures", "artists", "materials", "periods", "locations"}

IdArgs == {<<"a", "2">>, <<"l", "1">>}

NoParams == [name |-> <<>>, artist |-> <<>>, material |-> <<>>,
             period |-> <<>>, location |-> <<>>]

SearchParams ==
    {[NoParams EXCEPT !.artist = <<"c", "a", "r", "p", "e", "a", "u", "x">>],
     [NoParams EXCEPT !.name = <<"d", "a", "v", "i", "d">>, !.material = <<"m", "a", "r", "b", "l", "e">>],
     [NoParams EXCEPT !.period = <<"r", "e", "n", "a", "i", "s", "s">>, !.location = <<"a", "c", "c", "a", "d", "e", "m", "i", "a">>]}

\* the data file is replaced on disk, at any moment
FileChanges ==
    /\ file' \in StoreFiles \ {file}
    /\ UNCHANGED <<data, ops>>
    /\ sessionUnchanged

\* the operations whose readFile has not completed
InFlight == {k \in 1..Len(ops) : ops[k].state = "pending"}

\* the file of an operation that has read none
NotRead == [state |-> "unread", json |-> NoData]

\* an operation as it is called: before is the data at the call, loaded
\* tells that it calls readFile, file is what readFile read, inFlight the
\* operations it runs along with
Called(op, arg) ==
    [op |-> op, arg |-> arg, state |-> "pending", file |-> NotRead,
     before |-> data, loaded |-> TRUE, inFlight |-> InFlight,
     prior |-> data, after |-> data, res |-> Returned(<<>>)]

\* loadData() is called: readFile is started
StoreLoadData ==
    /\ Len(ops) < MaxOps
    /\ ops' = Append(ops, Called("loadData", <<>>))
    /\ UNCHANGED <<file, data>>
    /\ sessionUnchanged

\* the result of lookup op with argument arg, from the data after its guard
StoreResult(op, arg, d) ==
    CASE op = "findSculptureByName" -> findSculptureByName(d, arg)
      [] op = "getSculpturesByArtist" -> getSculpturesByArtist(d, arg)
      [] op = "getSculpturesByMaterial" -> getSculpturesByMaterial(d, arg)
      [] op = "getSculpturesByPeriod" -> getSculpturesByPeriod(d, arg)
      [] op = "getById" -> getById(d, arg[1], arg[2])
      [] op = "searchSculptures" -> searchSculptures(d, arg)

\* a lookup is called: without data its guard calls loadData, with data it
\* computes its result
StoreLookup(op, arg) ==
    /\ Len(ops) < MaxOps
    /\ ops' = Append(ops,
                 IF data.shape = "null" THEN Called(op, arg)
                 ELSE [Called(op, arg) EXCEPT !.state = "done", !.loaded = FALSE,
                                              !.res = StoreResult(op, arg, data)])
    /\ UNCHANGED <<file, data>>
    /\ sessionUnchanged

\* readFile of operation k takes the content of the file, at some moment
\* between the call and the completion
StoreRead(k) ==
    /\ ops[k].state = "pending"
    /\ ops[k].file = NotRead
    /\ ops' = [ops EXCEPT ![k].file = file]
    /\ UNCHANGED <<file, data>>
    /\ sessionUnchanged

\* readFile of operation k completes with the content it took: loadData
\* assigns the data or fails, and a lookup computes its result from the data
\* there is then
StoreLoaded(k) ==
    /\ ops[k].state = "pending"
    /\ ops[k].file # NotRead
    /\ LET loaded == loadData(ops[k].file, data)
       IN  /\ data' = loaded.data
           /\ ops' = [ops EXCEPT ![k] =
                  [@ EXCEPT !.state = "done",
                            !.prior = data, !.after = loaded.data,
                            !.res = IF ops[k].op = "loadData" THEN Returned(loaded.ok)
                                    ELSE StoreResult(ops[k].op, ops[k].arg, loaded.data)]]
    /\ UNCHANGED file
    /\ sessionUnchanged

StoreFind == \E name \in NameArgs : StoreLookup("findSculptureByName", name)

StoreByArtist == \E artistName \in ArtistArgs : StoreLookup("getSculpturesByArtist", artistName)

StoreByMaterial ==
    \E materialName \in MaterialArgs : StoreLookup("getSculpturesByMaterial", materialName)

StoreByPeriod == \E periodName \in PeriodArgs : StoreLookup("getSculpturesByPeriod", periodName)

StoreGetById ==
    \E collection \in Collections, id \in IdArgs : StoreLookup("getById", <<collection, id>>)

StoreSearch == \E params \in SearchParams : StoreLookup("searchSculptures", params)

(***************************************************************************)
(* Specifications.                                                         *)
(***************************************************************************)
HandlerNext ==
    \E i \in 1..Len(handlers) :
        \/ LookupReturned(i)
        \/ ContextItemSettled(i)
        \/ EnrichReturned(i)
        \/ UserItemSettled(i)
        \/ GenerateSettled(i)
        \/ SendAudioSettled(i)

SessionNext ==
    \/ Initialize
    \/ HandleClose
    \/ CloseSettled

StreamNext ==
    \/ EventResponse
    \/ EventInputAudio
    \/ EventsEnd
    \/ EventsFail
    \/ InputCompleted
    \/ InputFails
    \/ ItemNext
    \/ ItemsEnd
    \/ ItemsFail
    \/ ContentNext
    \/ ContentsEnd
    \/ TextChunk
    \/ TextEnd
    \/ TextFails
    \/ AudioChunk
    \/ AudioEnd
    \/ TranscriptChunk
    \/ TranscriptEnd
    \/ TranscriptFails

\* the whole session
Next ==
    \/ InitializeDataService
    \/ HandleBinary(MaxMsgs)
    \/ HandleText(TextFrames, MaxMsgs)
    \/ HandlerNext
    \/ SessionNext
    \/ StreamNext

Spec == Init /\ [][Next]_vars

\* user messages and their enrichment, over every data file
EnrichNext ==
    \/ InitializeDataService
    \/ HandleText(UserMessages, MaxUserMsgs)
    \/ \E i \in 1..Len(handlers) :
          \/ LookupReturned(i)
          \/ ContextItemSettled(i)
          \/ EnrichReturned(i)
          \/ UserItemSettled(i)
          \/ GenerateSettled(i)

SpecEnrich == Init /\ [][EnrichNext]_vars

\* mixed inbound traffic while the transport may close: binary frames, malformed frames, other kinds and user messages
\* without vocabulary hit
InitMessages == Init /\ file \in {FileMissing, FileDataset1}

MessagesNext ==
    \/ InitializeDataService
    \/ HandleBinary(MaxMsgs)
    \/ HandleText(PlainTextFrames, MaxMsgs)
    \/ \E i \in 1..Len(handlers) :
          \/ EnrichReturned(i)
          \/ UserItemSettled(i)
          \/ GenerateSettled(i)
          \/ SendAudioSettled(i)
    \/ HandleClose
    \/ CloseSettled

SpecMessages == InitMessages /\ [][MessagesNext]_vars

\* the outbound side: initialize and the event loop, no client frame received
InitStream == Init /\ file = FileMissing

SpecStream == InitStream /\ [][Initialize \/ StreamNext]_vars

\* the outbound side with the transport closing at any moment
SpecClose == InitStream /\ [][SessionNext \/ StreamNext]_vars

\* the same, where a call that was issued settles and a pending configure
\* completes; the client and the remote streams are free to stay silent
FairClose ==
    /\ SpecClose
    /\ WF_vars(Initialize)
    /\ WF_vars(CloseSettled)

\* a JsonDataService taken alone, as constructed: nothing loaded
InitStore ==
    /\ file \in StoreFiles
    /\ data = NoData
    /\ ops = <<>>
    /\ dataService = "service"
    /\ initLoad = "loading"
    /\ initPc = "configuring"
    /\ wsOpen = TRUE
    /\ closePc = "idle"
    /\ handlers = <<>>
    /\ calls = <<>>
    /\ frames = <<>>
    /\ loop = IdleLoop
    /\ delivered = <<>>

StoreNext ==
    \/ FileChanges
    \/ StoreLoadData
    \/ StoreFind
    \/ StoreByArtist
    \/ StoreByMaterial
    \/ StoreByPeriod
    \/ StoreGetById
    \/ StoreSearch
    \/ \E k \in 1..Len(ops) : StoreRead(k) \/ StoreLoaded(k)

SpecStore == InitStore /\ [][StoreNext]_vars

\* user messages received one after another on one connection, with the
\* dataset loaded or loading: one message with a result, one without
PairMessages == {UserMessage(TextDavid), UserMessage(TextLunch)}

InitPair == Init /\ file = FileDataset1

PairNext ==
    \/ InitializeDataService
    \/ HandleText(PairMessages, MaxMsgs)
    \/ \E i \in 1..Len(handlers) :
          \/ LookupReturned(i)
          \/ ContextItemSettled(i)
          \/ EnrichReturned(i)
          \/ UserItemSettled(i)
          \/ GenerateSettled(i)

SpecPair == InitPair /\ [][PairNext]_vars

(***************************************************************************)
(* Properties.                                                             *)
(***************************************************************************)
\* the calls handler i issued on the remote session, in order
CallsBy(i) == SelectSeq(calls, LAMBDA c : c.by = i)

\* a call sequence by kind: the role of a sendItem, the operation otherwise
Shape(cs) == [k \in 1..Len(cs) |-> IF cs[k].op = "sendItem" THEN cs[k].role ELSE cs[k].op]

IsPrefix(s, t) == Len(s) <= Len(t) /\ SubSeq(t, 1, Len(s)) = s

\* some lookup for a term of the text has a result in data d
HasHit(text, d) ==
    /\ d.shape = "ok"
    /\ \E cat \in 1..4 : \E idx \in 1..Len(Mentions(text)[cat]) :
          Len(Lookup(cat, d, Mentions(text)[cat][idx]).value) > 0

\* the user texts with a hit in the dataset, and those with a vocabulary term
HitTexts == {t \in UserTexts : HasHit(t, Dataset1)}

MentionTexts == {t \in UserTexts : \E cat \in 1..4 : Mentions(t)[cat] # <<>>}

\* the data file holds a dataset in which a term of the text has a result
FileHasHit(text) == file = FileDataset1 /\ text \in HitTexts

\* C1: for a user_message whose enrichment yields results, the calls made for
\* it are, in this order, sendItem of one system-role context item, sendItem of
\* the user-role item carrying the user's text, generateResponse; the context
\* item never comes after the user item or the generation request.
C1_ContextBeforeUser ==
    \A i \in 1..Len(handlers) :
        LET h == handlers[i]
            cs == CallsBy(i)
        IN  (FileHasHit(h.text) \/ \E k \in 1..Len(cs) : cs[k].role = "system")
            => /\ IsPrefix(Shape(cs), <<"system", "user", "generateResponse">>)
               /\ (h.pc # "lookup" => Len(cs) >= 1)
               /\ (Len(cs) >= 2 => cs[2].text = h.text)
               /\ (h.pc = "done" => Len(cs) = 3)

C1_Witness ==
    \E i \in 1..Len(handlers) :
        /\ handlers[i].pc = "done"
        /\ Shape(CallsBy(i)) = <<"system", "user", "generateResponse">>

\* C2: for a user_message for which no category yields a result (no
\* vocabulary hit, every lookup empty, or the store absent), no system-role
\* item is submitted: exactly the user item, then generation.
C2_NoContextWithoutResult ==
    \A i \in 1..Len(handlers) :
        LET h == handlers[i]
            cs == CallsBy(i)
        IN  (~FileHasHit(h.text) \/ h.enrich = "no")
            => /\ IsPrefix(Shape(cs), <<"user", "generateResponse">>)
               /\ (h.pc \notin {"lookup", "enrich"} => Len(cs) >= 1 /\ cs[1].text = h.text)
               /\ (h.pc = "done" => Len(cs) = 2)

C2_Witness ==
    \E i \in 1..Len(handlers) :
        /\ file = FileDataset1
        /\ handlers[i].text = TextBaroque
        /\ data.shape = "ok"
        /\ handlers[i].pc = "done"
        /\ Shape(CallsBy(i)) = <<"user", "generateResponse">>

\* C3: a failure of any step of enrichment (a lookup throws, the store handle
\* is null when the next lookup is issued, the context item is rejected) is
\* swallowed: it is logged, the user item is still submitted as soon as the
\* handler resumes from enrichment, generation is requested once the user
\* item is accepted, the handler fails only on the user item or the
\* generation request, and no frame is sent to the client.
C3_EnrichmentFailureSwallowed ==
    /\ \A i \in 1..Len(handlers) :
          LET h == handlers[i]
              cs == CallsBy(i)
              u == IF cs # <<>> /\ cs[1].role = "system" THEN 2 ELSE 1
          IN  /\ (file = FileBadShape /\ h.text \in MentionTexts /\ h.pc # "lookup"
                    => h.enrich = "failed")
              /\ h.enrich = "failed"
                 => /\ h.logged # <<>>
                    /\ h.logged[1] = "Error enriching message with sculpture data"
              /\ (h.enrich = "failed" /\ h.pc # "enrich")
                 => /\ Len(cs) >= u
                    /\ cs[u].role = "user"
                    /\ cs[u].text = h.text
                    /\ (cs[u].res = "ok" => Len(cs) = u + 1 /\ cs[u + 1].op = "generateResponse")
                    /\ (h.pc = "failed" => cs[Len(cs)].res = "fail" /\ Len(cs) >= u)
                    /\ (h.pc = "done" => Len(cs) = u + 1 /\ cs[u + 1].res = "ok")
    /\ frames = <<>>

\* the store handle was set to null while a lookup of the message was in flight
C3_Witness ==
    \E i \in 1..Len(handlers) :
        /\ handlers[i].enrich = "failed"
        /\ handlers[i].pc = "done"
        /\ dataService = "null"
        /\ Shape(CallsBy(i)) = <<"user", "generateResponse">>

(***************************************************************************)
(* Properties of the outbound side.                                        *)
(***************************************************************************)
\* the values the remote yielded on stream kind s of content or item id
Yielded(s, id) == SelectSeq(delivered, LAMBDA y : y.s = s /\ y.id = id)

\* the values the remote yielded on stream kind s, whatever the id
YieldedAny(s) == SelectSeq(delivered, LAMBDA y : y.s = s)

Values(ys) == [k \in 1..Len(ys) |-> ys[k].value]

Bodies(fs) == [k \in 1..Len(fs) |-> fs[k].body]

DeltaFrames(id) == SelectSeq(frames, LAMBDA f : f.type = "text_delta" /\ f.id = id)

DoneFrames(id) == SelectSeq(frames, LAMBDA f : f.action = "text_done" /\ f.id = id)

BinaryFrames == SelectSeq(frames, LAMBDA f : f.kind = "binary")

\* the content items of type t the remote yielded
Contents(t) == {delivered[k].id : k \in {j \in 1..Len(delivered) :
                    delivered[j].s = "content" /\ delivered[j].value = t}}

\* every text_done of id comes after every text_delta of id
DoneAfterDeltas(id) ==
    \A p, q \in 1..Len(frames) :
        (frames[p].action = "text_done" /\ frames[p].id = id
         /\ frames[q].type = "text_delta" /\ frames[q].id = id) => q < p

\* C4: for a text content item whose chunk stream delivers N chunks and then
\* ends, the client receives exactly N text_delta frames with the id
\* itemId-contentIndex, carrying the chunks in arrival order, followed by
\* exactly one text_done with the same id; no text_done of the id precedes a
\* text_delta of the id.
C4_TextDeltasThenDone ==
    \A c \in Contents("text") :
        /\ Bodies(DeltaFrames(c)) = Values(Yielded("text", c))
        /\ Len(DoneFrames(c)) = Len(Yielded("textEnd", c))
        /\ Len(DoneFrames(c)) <= 1
        /\ DoneAfterDeltas(c)

C4_Witness ==
    \E c \in Contents("text") :
        /\ Len(c) = 2
        /\ Len(DeltaFrames(c)) = 3
        /\ Len(DoneFrames(c)) = 1
        /\ frames[Len(frames)] = TextDone(c)

\* C5: for an audio content item, the binary frames are sent in the order the
\* audio chunks arrive, the transcript text_delta frames in the order the
\* transcript chunks arrive, followed by one text_done with the same id; the
\* two sub-streams interleave freely but neither is reordered.
C5_AudioSubStreamsOrdered ==
    /\ Bodies(BinaryFrames)
         = [k \in 1..Len(YieldedAny("audio")) |-> ChunkBuffer(YieldedAny("audio")[k].value)]
    /\ \A c \in Contents("audio") :
          /\ Bodies(DeltaFrames(c)) = Values(Yielded("transcript", c))
          /\ Len(DoneFrames(c)) = Len(Yielded("transcriptEnd", c))
          /\ Len(DoneFrames(c)) <= 1
          /\ DoneAfterDeltas(c)

\* a transcript frame between two binary frames of one audio item
C5_Witness ==
    \E c \in Contents("audio") : \E p, q, r \in 1..Len(frames) :
        /\ p < q /\ q < r
        /\ frames[p].kind = "binary"
        /\ frames[q].type = "text_delta" /\ frames[q].id = c
        /\ frames[r].kind = "binary"
        /\ Len(Yielded("audio", c)) = 2

\* the frames that belong to content items
ContentFrame(f) == f.kind = "binary" \/ f.type = "text_delta" \/ f.action = "text_done"

\* the content item frame p belongs to: the id it carries, or for a binary
\* frame the item of the audio chunk it was sent for
Owner(p) ==
    IF frames[p].kind = "binary"
    THEN YieldedAny("audio")[Len(SelectSeq(SubSeq(frames, 1, p), LAMBDA f : f.kind = "binary"))].id
    ELSE frames[p].id

\* the position of content item c in the order the remote reported them
Ord(c) == CHOOSE k \in 1..Len(delivered) : delivered[k].s = "content" /\ delivered[k].id = c

\* C6: content items are handled in remote-reported order and one at a time:
\* no frame of a later content item is sent before every frame of an earlier
\* one has been sent, both sub-streams of an audio item included.
C6_ContentItemsOneAtATime ==
    \A p, q \in 1..Len(frames) :
        (p < q /\ ContentFrame(frames[p]) /\ ContentFrame(frames[q]))
        => Ord(Owner(p)) <= Ord(Owner(q))

\* an audio item with frames of both sub-streams, followed by a frame of the
\* next content item
C6_Witness ==
    \E p, q, r \in 1..Len(frames) :
        /\ p < r /\ q < r
        /\ frames[p].kind = "binary"
        /\ frames[q].action = "text_done"
        /\ Owner(p) = frames[q].id
        /\ frames[r].type = "text_delta"
        /\ Ord(frames[q].id) < Ord(frames[r].id)

SpeechFrames == {p \in 1..Len(frames) : frames[p].action = "speech_started"}

TranscriptionFrames == SelectSeq(frames, LAMBDA f : f.type = "transcription")

\* C7: for every input-audio event speech_started is sent at once, before the
\* completion is awaited; after completion exactly one transcription frame
\* with the item's id and final text ("" when there is none) is sent; the
\* speech_started frame of an item precedes its transcription frame.
C7_SpeechStartedThenTranscription ==
    LET inputs == YieldedAny("input_audio")
        completions == YieldedAny("completed")
    IN  /\ Cardinality(SpeechFrames) = Len(inputs)
        /\ (loop.pc = "input" => frames[Len(frames)].action = "speech_started")
        /\ Len(TranscriptionFrames) = Len(completions)
        /\ \A k \in 1..Len(completions) :
              /\ completions[k].id = inputs[k].id
              /\ TranscriptionFrames[k].id = inputs[k].id
              /\ TranscriptionFrames[k].body =
                    (IF completions[k].value \in {NoTranscription, ""} THEN ""
                     ELSE completions[k].value)
        /\ \A p \in 1..Len(frames) :
              frames[p].type = "transcription"
              => /\ p > 1
                 /\ frames[p - 1].action = "speech_started"
                 /\ Cardinality({q \in SpeechFrames : q < p})
                      = Len(SelectSeq(SubSeq(frames, 1, p), LAMBDA f : f.type = "transcription"))

\* two input-audio items completed, one of them without transcription
C7_Witness ==
    /\ Len(TranscriptionFrames) = 2
    /\ \E k \in 1..Len(delivered) :
          delivered[k].s = "completed" /\ delivered[k].value = NoTranscription

ConnectedFrames == SelectSeq(frames, LAMBDA f : f.action = "connected")

\* C8: the connected frame is sent once, after configure has completed, and
\* is the first frame; the remote event stream is consumed, and every other
\* frame sent, only after it.
C8_ConnectedFirst ==
    /\ Len(ConnectedFrames) <= 1
    /\ (initPc = "done" <=> Len(ConnectedFrames) = 1)
    /\ (frames # <<>> => frames[1].action = "connected" /\ frames[1].body = Greeting)
    /\ (ConnectedFrames # <<>> => calls[1].op = "configure" /\ calls[1].res = "ok")
    /\ (ConnectedFrames = <<>> => loop.pc = "idle" /\ delivered = <<>>)

C8_Witness ==
    /\ Len(frames) >= 3
    /\ frames[1].action = "connected"
    /\ Len(ConnectedFrames) = 1
    /\ delivered # <<>>

\* C9: once the transport has closed and the session is Closed, no further
\* frame is sent to the client, whatever is still in flight.
C9_NoFrameAfterClosed ==
    [][(~wsOpen /\ closePc \in {"closed", "failed"}) => frames' = frames]_vars

(***************************************************************************)
(* Properties of the inbound error handling.                               *)
(***************************************************************************)
\* handler i has failed in this step
FailsNow(i) ==
    /\ handlers'[i].pc = "failed"
    /\ (i > Len(handlers) \/ handlers[i].pc # "failed")

\* C10: an error while handling one inbound frame (malformed JSON, a failing
\* sendAudio, sendItem or generateResponse) is caught and logged by
\* handleMessage and does not terminate the connection: the step in which a
\* handler fails leaves the transport and the session state as they are,
\* issues no call on the remote session (no close in particular), sends no
\* frame and leaves every other handler as it is, so that later frames are
\* handled as if the failed one had not occurred.
C10_InboundErrorContained ==
    [][\A i \in 1..Len(handlers') :
          FailsNow(i)
          => /\ wsOpen' = wsOpen
             /\ closePc' = closePc
             /\ frames' = frames
             /\ dataService' = dataService
             /\ data' = data
             /\ handlers'[i].logged # <<>>
             /\ handlers'[i].logged[Len(handlers'[i].logged)] = "Error handling message"
             /\ Len(calls') = Len(calls)
             /\ \A k \in 1..Len(calls) : calls'[k].op = calls[k].op
             /\ \A j \in 1..Len(handlers) : j # i => handlers'[j] = handlers[j]]_vars

\* a malformed frame has failed, the connection is open, and the user message
\* received after it has been submitted and generation requested
C10_Witness ==
    /\ Len(handlers) = 2
    /\ handlers[1].pc = "failed"
    /\ handlers[1].logged = <<"Error handling message">>
    /\ handlers[2].pc = "done"
    /\ handlers[2].text = TextLunch
    /\ Shape(CallsBy(2)) = <<"user", "generateResponse">>
    /\ \A k \in 1..Len(CallsBy(2)) : CallsBy(2)[k].res = "ok"
    /\ wsOpen
    /\ closePc = "idle"

(***************************************************************************)
(* Properties of the event loop's error paths.                             *)
(***************************************************************************)
HandlingErrors ==
    {"Error handling text content", "Error handling audio content",
     "Error handling response", "Error handling input audio"}

\* C11: an error while handling one outbound event (a failure inside a chunk
\* stream, a response or an input-audio completion) is logged and the event
\* loop keeps consuming the remote event stream: the loop has not ended
\* whenever such an error has been logged.
C11_LoopSurvivesHandlingError ==
    (\E k \in 1..Len(loop.logged) : loop.logged[k] \in HandlingErrors)
    => loop.pc # "failed"

\* C12: when the remote event stream itself fails, the session eventually
\* moves toward Closing: close is issued on the remote session.
C12_TransportFailureLeadsToClose ==
    (loop.pc = "failed" /\ loop.logged = <<"Error in event loop">>)
    ~> (closePc # "idle")

(***************************************************************************)
(* Properties of the store as the session uses it.                         *)
(***************************************************************************)
\* C13: a lookup issued while the load of the store has not completed is
\* treated as store absent and returns without waiting for a load: no
\* handler of a user message is ever suspended in a lookup that awaits a
\* load of the data file.
C13_LookupDuringLoadDoesNotWait ==
    \A i \in 1..Len(handlers) :
        ~(handlers[i].pc = "lookup" /\ handlers[i].loading)

(***************************************************************************)
(* Properties of the store taken alone.                                    *)
(***************************************************************************)
IsLookup(o) == o.op # "loadData"

\* the empty result of an operation: null for one entity, [] for a list
Empty(o) == IF o.op = "getById" THEN Null ELSE <<>>

\* C14: a load that fails (the file is missing or malformed) reports failure
\* and leaves the data as it was when the read ended; a lookup that finds the
\* store unset returns an empty sequence or null and does not raise.
C14_FailedLoadKeepsData ==
    \A k \in 1..Len(ops) :
        LET o == ops[k]
        IN  o.state = "done"
            => /\ (o.loaded /\ o.file.state # "json") => o.after = o.prior
               /\ (o.op = "loadData" /\ o.file.state # "json") => o.res = Returned(FALSE)
               /\ (IsLookup(o) /\ o.after.shape = "null")
                  => /\ ~o.res.threw
                     /\ o.res.value = Empty(o)

\* a load fails with a dataset loaded before, which is kept
C14_Witness ==
    /\ Len(ops) = 2
    /\ ops[1].op = "loadData" /\ ops[1].state = "done" /\ ops[1].after = Dataset1
    /\ ops[2].op = "loadData" /\ ops[2].state = "done" /\ ops[2].file = FileMalformed
    /\ ops[2].prior = Dataset1
    /\ ops[2].res = Returned(FALSE)
    /\ data = Dataset1

\* C15: the load is one-shot: after a load has failed and left the store
\* unset, and until load is called again, no lookup starts a load by itself
\* and every lookup returns an empty result.
C15_NoLoadByLookup ==
    \A j, k \in 1..Len(ops) :
        (/\ j < k
         /\ ops[j].op = "loadData"
         /\ ops[j].state = "done"
         /\ j \notin ops[k].inFlight
         /\ ops[j].res = Returned(FALSE)
         /\ ops[j].after.shape = "null"
         /\ \A m \in (j + 1)..k : IsLookup(ops[m]))
        => /\ ~ops[k].loaded
           /\ ops[k].state = "done" => ops[k].res = Returned(Empty(ops[k]))

\* the resolution of a reference in which the id takes precedence over the
\* name, whatever the store order
ResolveIdFirst(collection, reference) ==
    LET byId == SelectSeq(collection, LAMBDA entity : entity.id = reference)
        byName == SelectSeq(collection, LAMBDA entity : entity.name = reference)
    IN  IF byId # <<>> THEN <<byId[1]>>
        ELSE IF byName # <<>> THEN <<byName[1]>>
        ELSE <<>>

\* the reference fields of a sculpture and the collections they refer to
ReferenceFields ==
    {<<"artist", "artists">>, <<"material", "materials">>,
     <<"period", "periods">>, <<"location", "locations">>}

\* C20: when searchSculptures resolves a reference field of a sculpture, an
\* entity whose id equals the reference takes precedence over an entity whose
\* name equals it: for every search that was made, the entity resolved for
\* each criterion given and each sculpture is the one with that precedence.
C20_IdTakesPrecedence ==
    \A k \in 1..Len(ops) :
        (ops[k].op = "searchSculptures" /\ ops[k].state = "done" /\ ops[k].after.shape = "ok")
        => \A f \in ReferenceFields : \A n \in 1..Len(ops[k].after.sculptures) :
              Truthy(ops[k].arg[f[1]])
              => findByIdOrName(ops[k].after[f[2]], ops[k].after.sculptures[n][f[1]])
                   = ResolveIdFirst(ops[k].after[f[2]], ops[k].after.sculptures[n][f[1]])

(***************************************************************************)
(* Properties of the inbound frames.                                       *)
(***************************************************************************)
\* C16: every inbound binary frame causes exactly one sendAudio call with the
\* bytes of the frame and no other call, and the sendAudio calls are issued
\* in the order the binary frames were received.
C16_BinaryForwardedVerbatim ==
    LET audioCalls == SelectSeq(calls, LAMBDA c : c.op = "sendAudio")
        binaryHandlers == SelectSeq(handlers, LAMBDA h : h.kind = "binary")
    IN  /\ Len(audioCalls) = Len(binaryHandlers)
        /\ \A k \in 1..Len(audioCalls) : audioCalls[k].text = binaryHandlers[k].text
        /\ \A i \in 1..Len(handlers) :
              handlers[i].kind = "binary"
              => /\ Len(CallsBy(i)) = 1
                 /\ CallsBy(i)[1].op = "sendAudio"
                 /\ CallsBy(i)[1].text = handlers[i].text
        /\ \A j, k \in 1..Len(calls) :
              (j < k /\ calls[j].op = "sendAudio" /\ calls[k].op = "sendAudio")
              => calls[j].by < calls[k].by

\* two binary frames with different bytes, forwarded
C16_Witness ==
    /\ Len(handlers) = 2
    /\ handlers[1].kind = "binary" /\ handlers[1].text = <<7, 8>>
    /\ handlers[2].kind = "binary" /\ handlers[2].text = <<9>>
    /\ handlers[1].pc = "done" /\ handlers[2].pc = "done"

\* handler i is new in this step
Received(i) == i = Len(handlers) + 1 /\ Len(handlers') = i

\* C17: an inbound text frame whose kind is not user_message triggers no
\* action: the step that receives it issues no call on the remote session,
\* makes no lookup on the store and sends no frame, its handler has returned
\* at once, and that handler never does anything later.
C17_OtherKindsTriggerNothing ==
    [][\A i \in 1..Len(handlers') :
          (handlers'[i].kind = "text" /\ handlers'[i].type # "user_message")
          => /\ handlers'[i].pc \in {"done", "failed"}
             /\ handlers'[i].cat = 0 /\ handlers'[i].idx = 0
             /\ handlers'[i].enrich = "no"
             /\ \A k \in 1..Len(calls') : calls'[k].by # i
             /\ (Received(i)
                 => /\ calls' = calls
                    /\ frames' = frames
                    /\ data' = data
                    /\ dataService' = dataService)
             /\ (i <= Len(handlers) => handlers'[i] = handlers[i])]_vars

\* a text_delta frame that names a sculpture has been received with the
\* store loaded, and nothing was called
C17_Witness ==
    /\ Len(handlers) >= 1
    /\ handlers[1].type = "text_delta"
    /\ handlers[1].pc = "done"
    /\ initLoad = "loaded"
    /\ data = Dataset1
    /\ Len(calls) = 1

(***************************************************************************)
(* Properties of the close sequence.                                       *)
(***************************************************************************)
CloseCalls == SelectSeq(calls, LAMBDA c : c.op = "close")

\* C18: on transport close the coordinator issues close on the remote
\* session, whatever state the session is in: once the transport has closed
\* exactly one close call has been issued; handleClose has ended when that
\* call has settled, whether it succeeded or failed, and a failure is caught.
C18_CloseIssuedOnTransportClose ==
    /\ (wsOpen <=> closePc = "idle")
    /\ (wsOpen => CloseCalls = <<>>)
    /\ (~wsOpen
        => /\ Len(CloseCalls) = 1
           /\ (closePc = "closing" <=> CloseCalls[1].res = "pending")
           /\ (closePc = "closed" <=> CloseCalls[1].res = "ok")
           /\ (closePc = "failed" <=> CloseCalls[1].res = "fail"))

\* the transport closed while configure was pending, and close failed
C18_Witness ==
    /\ ~wsOpen
    /\ initPc = "configuring"
    /\ closePc = "failed"
    /\ CloseCalls[1].res = "fail"

(***************************************************************************)
(* Properties of the lookup order of enrichment.                           *)
(***************************************************************************)
\* the first lookup with a non-empty result in Dataset1, in the order of the
\* categories and, within a category, of the extracted terms: <<>> when no
\* lookup has a result
ExpectedHit(text) ==
    LET ment == Mentions(text)
        hits == {p \in UNION {{<<cat, idx>> : idx \in 1..Len(ment[cat])} : cat \in 1..4} :
                    Len(Lookup(p[1], Dataset1, ment[p[1]][p[2]]).value) > 0}
        first == CHOOSE p \in hits :
                    \A q \in hits : p[1] < q[1] \/ (p[1] = q[1] /\ p[2] <= q[2])
    IN  IF hits = {} THEN <<>>
        ELSE <<[cat |-> first[1], idx |-> first[2],
                text |-> ContextText(Format(first[1],
                             Lookup(first[1], Dataset1, ment[first[1]][first[2]]).value))]>>

ExpectedContext == [t \in UserTexts |-> ExpectedHit(t)]

\* C19: enrichment tries sculpture name, artist, material, period in this
\* order and, within a category, the terms in extraction order, and stops at
\* the first lookup with a non-empty result: at most one system context item
\* is submitted per user_message, and it holds the result of that lookup alone.
C19_FirstHitOnly ==
    \A i \in 1..Len(handlers) :
        LET h == handlers[i]
            sys == SelectSeq(CallsBy(i), LAMBDA c : c.role = "system")
            exp == IF file = FileDataset1 THEN ExpectedContext[h.text] ELSE <<>>
        IN  /\ Len(sys) <= 1
            /\ (Len(sys) = 1
                => /\ exp # <<>>
                   /\ sys[1].text = exp[1].text
                   /\ h.cat = exp[1].cat
                   /\ h.idx = exp[1].idx)
            /\ ((exp # <<>> /\ h.pc # "lookup") => Len(sys) = 1)

\* the first sculpture term has no result, the second has, and the artist
\* named in the text is not looked up
C19_Witness ==
    \E i \in 1..Len(handlers) :
        /\ handlers[i].text = TextPietaThinker
        /\ handlers[i].pc = "done"
        /\ handlers[i].cat = 1
        /\ handlers[i].idx = 2
        /\ Len(Mentions(TextPietaThinker)[2]) = 1
        /\ Shape(CallsBy(i)) = <<"system", "user", "generateResponse">>

(***************************************************************************)
(* Properties of term extraction.                                          *)
(***************************************************************************)
Vocabularies == <<commonSculptures, commonArtists, commonMaterials, commonPeriods>>

\* a and b are the same character up to the case of a letter
SameLetter(a, b) ==
    \/ a = b
    \/ \E n \in 1..Len(UpperCase) : {a, b} = {UpperCase[n], LowerCase[n]}

\* term occurs in text at some position, letter by letter up to case
OccursIn(term, text) ==
    \E k \in 0..(Len(text) - Len(term)) :
        \A j \in 1..Len(term) : SameLetter(text[k + j], term[j])

\* for each user text and vocabulary, the positions in the vocabulary list of
\* the terms that occur in the text
OccurringTerms ==
    [t \in UserTexts |->
        [c \in 1..4 |-> {n \in 1..Len(Vocabularies[c]) : OccursIn(Vocabularies[c][n], t)}]]

\* C21: the term extractor returns exactly the subsequence of the vocabulary
\* list whose terms occur as a case-insensitive substring of the text, in
\* vocabulary-list order: the a-th term returned is the a-th term of the list
\* that occurs in the text, and as many terms are returned as occur.
C21_ExtractsOccurringTermsInOrder ==
    \A i \in 1..Len(handlers) :
        handlers[i].type = "user_message"
        => \A c \in 1..4 :
              LET got == handlers[i].ment[c]
                  occurring == OccurringTerms[handlers[i].text][c]
              IN  /\ Len(got) = Cardinality(occurring)
                  /\ \A a \in 1..Len(got) :
                        \E n \in occurring :
                            /\ got[a] = Vocabularies[c][n]
                            /\ Cardinality({m \in occurring : m < n}) = a - 1

\* a text with a term in capitals followed by 's and a term inside a plural
C21_Witness ==
    \E i \in 1..Len(handlers) :
        /\ handlers[i].text = TextMichelangelos
        /\ handlers[i].ment[1] = <<>>
        /\ handlers[i].ment[2] = <<commonArtists[1]>>
        /\ handlers[i].ment[3] = <<commonMaterials[1]>>
        /\ handlers[i].ment[4] = <<>>

(***************************************************************************)
(* Properties of inbound frames against the session's lifecycle.           *)
(***************************************************************************)
\* C22: while the session is Initializing (configure has not completed, the
\* connected frame has not been sent) an inbound client frame causes no call
\* on the remote session: every call issued so far is the session's own
\* (configure, close), none is made by a frame handler.
C22_NoCallWhileInitializing ==
    (initPc = "configuring" /\ frames = <<>>)
    => \A k \in 1..Len(calls) : calls[k].by = 0

\* C23: the handling of two user_message frames received one after the other
\* does not interleave on the remote session: every call made for the
\* earlier frame is issued before any call made for the later one.
C23_NoInterleaving ==
    \A j, k \in 1..Len(calls) :
        (j < k /\ calls[j].by > 0 /\ calls[k].by > 0) => calls[j].by <= calls[k].by

(***************************************************************************)
(* Properties of the order of remote events.                               *)
(***************************************************************************)
\* the number of the remote event that the k-th yielded value belongs to
EventAt(k) ==
    Len(SelectSeq(SubSeq(delivered, 1, k),
                  LAMBDA y : y.s \in {"response", "input_audio"}))

\* the position at which the item with this id was yielded
ItemAt(id) ==
    CHOOSE k \in 1..Len(delivered) :
        delivered[k].s \in {"item", "input_audio"} /\ delivered[k].id = id

\* the position of the n-th input-audio event
InputAt(n) ==
    CHOOSE k \in 1..Len(delivered) :
        /\ delivered[k].s = "input_audio"
        /\ Len(SelectSeq(SubSeq(delivered, 1, k), LAMBDA y : y.s = "input_audio")) = n

\* the remote event frame p derives from; 0 for the connected frame
FrameEvent(p) ==
    IF frames[p].action = "connected" THEN 0
    ELSE IF frames[p].action = "speech_started"
    THEN EventAt(InputAt(Cardinality({q \in SpeechFrames : q <= p})))
    ELSE IF frames[p].type = "transcription" THEN EventAt(ItemAt(frames[p].id))
    ELSE EventAt(ItemAt(SubSeq(Owner(p), 1, 1)))

\* C24: the remote event stream is consumed one event at a time: no frame
\* derived from a later event is sent before a frame of an earlier event, and
\* between the speech_started frame and the transcription frame of one
\* input-audio item no text_delta, text_done or binary frame is sent.
C24_OneEventAtATime ==
    /\ \A p, q \in 1..Len(frames) : p < q => FrameEvent(p) <= FrameEvent(q)
    /\ \A p, q, r \in 1..Len(frames) :
          (/\ p < r /\ r < q
           /\ frames[p].action = "speech_started"
           /\ frames[q].type = "transcription"
           /\ FrameEvent(p) = FrameEvent(q))
          => ~ContentFrame(frames[r])

\* an audio frame of a response, the first event, is followed by the
\* speech_started and transcription frames of an input-audio item, the second
C24_Witness ==
    \E p, q, r \in 1..Len(frames) :
        /\ p < q /\ q < r
        /\ frames[p].kind = "binary"
        /\ frames[q].action = "speech_started"
        /\ frames[r].type = "transcription"
        /\ FrameEvent(p) = 1
        /\ FrameEvent(r) = 2

(***************************************************************************)
(* Properties of response generation.                                      *)
(***************************************************************************)
GenerateCalls == {k \in 1..Len(calls) : calls[k].op = "generateResponse"}

UserItems == {k \in 1..Len(calls) : calls[k].op = "sendItem" /\ calls[k].role = "user"}

\* C25: the remote session is asked to generate a response at most as often
\* as user-role items were submitted successfully: each request is made by
\* the handler of a user_message frame, after that handler's user item
\* succeeded, and once per frame.
C25_GenerateOnlyAfterUserItem ==
    /\ Cardinality(GenerateCalls)
          <= Cardinality({k \in UserItems : calls[k].res = "ok"})
    /\ \A k \in GenerateCalls :
          /\ calls[k].by \in 1..Len(handlers)
          /\ handlers[calls[k].by].kind = "text"
          /\ handlers[calls[k].by].type = "user_message"
          /\ \E j \in UserItems :
                j < k /\ calls[j].by = calls[k].by /\ calls[j].res = "ok"
          /\ \A j \in GenerateCalls : calls[j].by = calls[k].by => j = k

\* two user_message frames: the user item of the first failed and nothing
\* was requested for it, the second got its one response request
C25_Witness ==
    /\ Len(handlers) = 2
    /\ handlers[1].type = "user_message"
    /\ handlers[1].pc = "failed"
    /\ Shape(CallsBy(1)) = <<"user">>
    /\ CallsBy(1)[1].res = "fail"
    /\ handlers[2].type = "user_message"
    /\ Shape(CallsBy(2)) = <<"user", "generateResponse">>
    /\ CallsBy(2)[1].res = "ok"

====
